---- MODULE Spec2Model ----
(***************************************************************************)
(* The `pig ext` command family of cmd/extension.go: the seven             *)
(* subcommand handlers, the version resolver extProbeVersion they share,   *)
(* and the collaborators of package ext they call.  One behaviour is one   *)
(* CLI invocation: Init fixes the command line and the host, the actions   *)
(* are the statements of the handler in program order.                     *)
(***************************************************************************)
EXTENDS Integers, Sequences, FiniteSets, TLC

VARIABLES
    cmd,             \* the subcommand cobra dispatched to
    args,            \* its positional arguments
    extPgVer,        \* --version / -v                      (extension.go:16)
    extPgConfig,     \* --path / -p                         (extension.go:17)
    extShowContrib,  \* --contrib / -c                      (extension.go:18)
    extYes,          \* --yes / -y                          (extension.go:19)
    Installs,        \* the PostgreSQL installations present on the host
    hostActive,      \* the installation DetectPostgres finds active, or Nil
    Active,          \* ext.Active
    Postgres,        \* ext.Postgres, the current installation
    pc,              \* position of the process in the handler
    pgVer,           \* the handler's local pgVer (result of extProbeVersion)
    results,         \* extListCmd's local results
    idx,             \* extInfoCmd's position in `for _, name := range args`
    stdout,          \* what has been written to standard output
    log,             \* what has been sent to logrus
    exitCode,        \* process exit status, meaningful once pc = "exit"
    abortSite,       \* the os.Exit call (or panic) that ended the process, "" if none
    catalogAccessed, \* history: the handler has read ext.Catalog
    pgWrites,        \* history: number of assignments to ext.Postgres
    downstream,      \* history: an operation after the resolver has run
    probeReturned,   \* history: extProbeVersion has returned to the handler
    aliasConsulted   \* history: the identifiers looked up in ExtAliasMap

vars == <<cmd, args, extPgVer, extPgConfig, extShowContrib, extYes, Installs,
          hostActive, Active, Postgres, pc, pgVer, results, idx, stdout, log,
          exitCode, abortSite, catalogAccessed, pgWrites, downstream,
          probeReturned, aliasConsulted>>

(***************************************************************************)
(* Bounds and program constants                                            *)
(***************************************************************************)
MaxArgs == 2

MutexExitCode == 1

PathExitCode == 3

Commands == {"list", "info", "add", "rm", "update", "status", "scan"}

\* Commands that register the --yes flag.
YesCommands == {"add", "rm", "update"}

(***************************************************************************)
(* Hosts: installations, and the nil installation pointer                  *)
(***************************************************************************)
Nil == [MajorVersion |-> 0, PgConfig |-> ""]

AllInstalls ==
    { [MajorVersion |-> 14, PgConfig |-> "/usr/pgsql-14/bin/pg_config"],
      [MajorVersion |-> 16, PgConfig |-> "/usr/pgsql-16/bin/pg_config"] }

VersionFlags == {0, 14, 16}

PathFlags == {"", "/usr/pgsql-14/bin/pg_config", "/usr/pgsql-16/bin/pg_config",
              "/nonexistent/pg_config"}

(***************************************************************************)
(* strconv.Itoa on the non-negative integers                               *)
(***************************************************************************)
Digits == <<"0", "1", "2", "3", "4", "5", "6", "7", "8", "9">>

RECURSIVE Itoa(_)
Itoa(n) == IF n < 10 THEN Digits[n + 1]
           ELSE Itoa(n \div 10) \o Digits[(n % 10) + 1]

(***************************************************************************)
(* ext.GetPostgres(identifier) -> (installation, error): the identifier is *)
(* a major version in decimal or a pg_config path.  On success the found   *)
(* installation becomes the current one (ext.Postgres).                    *)
(***************************************************************************)
GetPostgresMatches(id) ==
    {p \in Installs : id = Itoa(p.MajorVersion) \/ id = p.PgConfig}

GetPostgresErr(id) == GetPostgresMatches(id) = {}

GetPostgres(id) ==
    IF GetPostgresErr(id) THEN Nil ELSE CHOOSE p \in GetPostgresMatches(id) : TRUE

(***************************************************************************)
(* ext.DetectPostgres(): records the host's active installation, if any,   *)
(* in ext.Active.                                                          *)
(***************************************************************************)
DetectPostgres == hostActive

(***************************************************************************)
(* The catalog: ext.Catalog.Extensions in catalog order, and the two       *)
(* lookup maps built from it (a later entry overwrites an earlier one).    *)
(* "gis" is the canonical name of one entry and the alias of another.      *)
(***************************************************************************)
Catalog ==
    << [Name |-> "postgis", Alias |-> "gis", Category |-> "GIS", EnDesc |-> "geo"],
       [Name |-> "gis",     Alias |-> "h3",  Category |-> "GIS", EnDesc |-> "hex"],
       [Name |-> "vector",  Alias |-> "vec", Category |-> "RAG", EnDesc |-> "ann"] >>

\* The last catalog position whose field f equals key k.
LastWith(f, k) ==
    CHOOSE i \in 1..Len(Catalog) :
        /\ Catalog[i][f] = k
        /\ \A j \in 1..Len(Catalog) : Catalog[j][f] = k => j <= i

ExtNameMap ==
    [k \in {Catalog[i].Name : i \in 1..Len(Catalog)} |-> Catalog[LastWith("Name", k)]]

ExtAliasMap ==
    [k \in {Catalog[i].Alias : i \in 1..Len(Catalog)} |-> Catalog[LastWith("Alias", k)]]

\* What a user may type as an extension name or a search query.
ArgPool == {"gis", "vec", "VEC", "nope"}

(***************************************************************************)
(* ext.SearchExtensions(query, catalog): case-insensitive substring match  *)
(* against name, alias, description and category, in catalog order.        *)
(***************************************************************************)
Chars ==
    "postgis" :> <<"p", "o", "s", "t", "g", "i", "s">> @@
    "gis"     :> <<"g", "i", "s">> @@
    "GIS"     :> <<"G", "I", "S">> @@
    "geo"     :> <<"g", "e", "o">> @@
    "h3"      :> <<"h", "3">> @@
    "hex"     :> <<"h", "e", "x">> @@
    "vector"  :> <<"v", "e", "c", "t", "o", "r">> @@
    "vec"     :> <<"v", "e", "c">> @@
    "VEC"     :> <<"V", "E", "C">> @@
    "RAG"     :> <<"R", "A", "G">> @@
    "ann"     :> <<"a", "n", "n">> @@
    "nope"    :> <<"n", "o", "p", "e">>

LowerOf ==
    "A" :> "a" @@ "C" :> "c" @@ "E" :> "e" @@ "G" :> "g" @@
    "I" :> "i" @@ "R" :> "r" @@ "S" :> "s" @@ "V" :> "v"

ToLower(cs) ==
    [i \in 1..Len(cs) |-> IF cs[i] \in DOMAIN LowerOf THEN LowerOf[cs[i]] ELSE cs[i]]

Contains(s, sub) ==
    \E i \in 1..(Len(s) - Len(sub) + 1) : SubSeq(s, i, i + Len(sub) - 1) = sub

MatchesQuery(e, query) ==
    \E f \in {"Name", "Alias", "EnDesc", "Category"} :
        Contains(ToLower(Chars[e[f]]), ToLower(Chars[query]))

SearchExtensions(query, exts) == SelectSeq(exts, LAMBDA e : MatchesQuery(e, query))

(***************************************************************************)
(* Extension.PrintInfo: one boxed detail panel on standard output.         *)
(***************************************************************************)
PrintInfo(e) == [op |-> "PrintInfo", ver |-> 0, exts |-> <<e.Name>>]

(***************************************************************************)
(* Process start: cobra has parsed the flags and dispatched to a handler.  *)
(***************************************************************************)
RECURSIVE SeqsUpTo(_, _)
SeqsUpTo(S, n) ==
    IF n = 0 THEN {<<>>}
    ELSE SeqsUpTo(S, n - 1) \cup
         {Append(t, x) : t \in {u \in SeqsUpTo(S, n - 1) : Len(u) = n - 1}, x \in S}

Init ==
    /\ cmd \in Commands
    /\ args \in SeqsUpTo(ArgPool, MaxArgs)
    /\ extPgVer \in VersionFlags
    /\ extPgConfig \in PathFlags
    /\ extShowContrib \in (IF cmd = "status" THEN BOOLEAN ELSE {FALSE})
    /\ extYes \in (IF cmd \in YesCommands THEN BOOLEAN ELSE {FALSE})
    /\ Installs \in SUBSET AllInstalls
    /\ hostActive \in Installs \cup {Nil}
    /\ Active = Nil
    /\ Postgres = Nil
    /\ pc = IF cmd = "list" THEN "list_args" ELSE "probe"
    /\ pgVer = 0
    /\ results = <<>>
    /\ idx = 1
    /\ stdout = <<>>
    /\ log = <<>>
    /\ exitCode = 0
    /\ abortSite = ""
    /\ catalogAccessed = FALSE
    /\ pgWrites = 0
    /\ downstream = FALSE
    /\ probeReturned = FALSE
    /\ aliasConsulted = {}

cmdline == <<cmd, args, extPgVer, extPgConfig, extShowContrib, extYes>>
host == <<Installs, hostActive>>

\* os.Exit(code), called at `site`
Exit(code, site) == pc' = "exit" /\ exitCode' = code /\ abortSite' = site

\* `return nil` from RunE: the process ends with status 0
ReturnNil == pc' = "exit" /\ exitCode' = 0 /\ abortSite' = ""

\* history variables no step of the resolver changes
history == <<catalogAccessed, downstream, aliasConsulted>>

Logged(level, msg) == log' = Append(log, <<level, msg>>)

(***************************************************************************)
(* extProbeVersion                                                         *)
(***************************************************************************)
ProbeDetect ==
    /\ pc = "probe"
    /\ Active' = DetectPostgres
    /\ pc' = "probe_mutex"
    /\ UNCHANGED <<cmdline, host, Postgres, pgVer, results, idx, stdout, log,
                   exitCode, abortSite, pgWrites, probeReturned, history>>

ProbeMutex ==
    /\ pc = "probe_mutex"
    /\ IF extPgVer # 0 /\ extPgConfig # ""
       THEN /\ Logged("error", "both pg version and pg_config path are specified")
            /\ Exit(MutexExitCode, "probe_mutex")
       ELSE /\ pc' = "probe_select"
            /\ UNCHANGED <<log, exitCode, abortSite>>
    /\ UNCHANGED <<cmdline, host, Active, Postgres, pgVer, results, idx, stdout,
                   pgWrites, probeReturned, history>>

\* Variant: a missing installation of the explicit version is fatal, as for a path.
ProbeByVersionStrict ==
    /\ pc = "probe_select"
    /\ extPgVer # 0
    /\ IF GetPostgresErr(Itoa(extPgVer))
       THEN /\ Logged("error", "PostgreSQL installation not found")
            /\ Exit(PathExitCode, "probe_path")
            /\ UNCHANGED <<Postgres, pgWrites, pgVer, probeReturned>>
       ELSE /\ Postgres' = GetPostgres(Itoa(extPgVer))
            /\ pgWrites' = pgWrites + 1
            /\ pgVer' = extPgVer
            /\ pc' = "resolved"
            /\ probeReturned' = TRUE
            /\ UNCHANGED <<log, exitCode, abortSite>>
    /\ UNCHANGED <<cmdline, host, Active, results, idx, stdout, history>>

ProbeByVersion ==
    /\ pc = "probe_select"
    /\ extPgVer # 0
    /\ IF GetPostgresErr(Itoa(extPgVer))
       THEN /\ Logged("debug", "PostgreSQL installation not found, but it's ok")
            /\ UNCHANGED <<Postgres, pgWrites>>
       ELSE /\ Postgres' = GetPostgres(Itoa(extPgVer))
            /\ pgWrites' = pgWrites + 1
            /\ UNCHANGED log
    /\ pgVer' = extPgVer
    /\ pc' = "resolved"
    /\ probeReturned' = TRUE
    /\ UNCHANGED <<cmdline, host, Active, results, idx, stdout, exitCode, abortSite,
                   history>>

\* Variant: on success the version is read from ext.Active, not ext.Postgres.
ProbeByPathReadsActive ==
    /\ pc = "probe_select"
    /\ extPgVer = 0
    /\ extPgConfig # ""
    /\ IF GetPostgresErr(extPgConfig)
       THEN /\ Logged("error", "failed to get PostgreSQL by pg_config path")
            /\ Exit(PathExitCode, "probe_path")
            /\ UNCHANGED <<Postgres, pgWrites, pgVer, probeReturned>>
       ELSE /\ Postgres' = GetPostgres(extPgConfig)
            /\ pgWrites' = pgWrites + 1
            /\ pgVer' = Active.MajorVersion
            /\ pc' = "resolved"
            /\ probeReturned' = TRUE
            /\ UNCHANGED <<log, exitCode, abortSite>>
    /\ UNCHANGED <<cmdline, host, Active, results, idx, stdout, history>>

ProbeByPath ==
    /\ pc = "probe_select"
    /\ extPgVer = 0
    /\ extPgConfig # ""
    /\ IF GetPostgresErr(extPgConfig)
       THEN /\ Logged("error", "failed to get PostgreSQL by pg_config path")
            /\ Exit(PathExitCode, "probe_path")
            /\ UNCHANGED <<Postgres, pgWrites, pgVer, probeReturned>>
       ELSE /\ Postgres' = GetPostgres(extPgConfig)
            /\ pgWrites' = pgWrites + 1
            /\ pgVer' = Postgres'.MajorVersion
            /\ pc' = "resolved"
            /\ probeReturned' = TRUE
            /\ UNCHANGED <<log, exitCode, abortSite>>
    /\ UNCHANGED <<cmdline, host, Active, results, idx, stdout, history>>

\* Variant: the active installation's version is returned but not adopted.
ProbeFallbackNoAdopt ==
    /\ pc = "probe_select"
    /\ extPgVer = 0
    /\ extPgConfig = ""
    /\ IF Active # Nil
       THEN /\ Logged("debug", "fallback to active PostgreSQL")
            /\ pgVer' = Active.MajorVersion
       ELSE /\ Logged("debug", "no active PostgreSQL found, but it's ok")
            /\ pgVer' = 0
    /\ pc' = "resolved"
    /\ probeReturned' = TRUE
    /\ UNCHANGED <<cmdline, host, Active, Postgres, pgWrites, results, idx, stdout,
                   exitCode, abortSite, history>>

ProbeFallback ==
    /\ pc = "probe_select"
    /\ extPgVer = 0
    /\ extPgConfig = ""
    /\ IF Active # Nil
       THEN /\ Logged("debug", "fallback to active PostgreSQL")
            /\ Postgres' = Active
            /\ pgWrites' = pgWrites + 1
            /\ pgVer' = Active.MajorVersion
       ELSE /\ Logged("debug", "no active PostgreSQL found, but it's ok")
            /\ pgVer' = 0
            /\ UNCHANGED <<Postgres, pgWrites>>
    /\ pc' = "resolved"
    /\ probeReturned' = TRUE
    /\ UNCHANGED <<cmdline, host, Active, results, idx, stdout, exitCode, abortSite,
                   history>>

(***************************************************************************)
(* What the collaborators of package ext write to standard output          *)
(***************************************************************************)
Names(exts) == [i \in 1..Len(exts) |-> exts[i].Name]

TabulteCommon(exts) == [op |-> "TabulteCommon", ver |-> 0, exts |-> Names(exts)]

TabulteVersion(v, exts) == [op |-> "TabulteVersion", ver |-> v, exts |-> Names(exts)]

PostgresInstallSummary == [op |-> "PostgresInstallSummary", ver |-> 0, exts |-> <<>>]

ExtensionInstallSummary(pg) ==
    [op |-> "ExtensionInstallSummary", ver |-> pg.MajorVersion, exts |-> <<>>]

ExtensionStatus(contrib) ==
    [op |-> IF contrib THEN "ExtensionStatus+contrib" ELSE "ExtensionStatus",
     ver |-> Postgres.MajorVersion, exts |-> <<>>]

\* InstallExtensions, RemoveExtensions, UpdateExtensions(pgVer, names, yes)
PackageOp(op, v, names, yes) ==
    [op |-> IF yes THEN op \o " -y" ELSE op, ver |-> v, exts |-> names]

(***************************************************************************)
(* extListCmd                                                              *)
(***************************************************************************)
ListArgs ==
    /\ pc = "list_args"
    /\ IF Len(args) > 1
       THEN /\ Logged("error", "too many arguments, only one search query allowed")
            /\ Exit(1, "list_args")
       ELSE /\ pc' = "list_search"
            /\ UNCHANGED <<log, exitCode, abortSite>>
    /\ UNCHANGED <<cmdline, host, Active, Postgres, pgVer, results, idx, stdout,
                   pgWrites, probeReturned, history>>

ListSearch ==
    /\ pc = "list_search"
    /\ catalogAccessed' = TRUE
    /\ IF Len(args) = 1
       THEN /\ results' = SearchExtensions(args[1], Catalog)
            /\ IF Len(results') = 0
               THEN /\ Logged("warn", "no extensions found matching query")
                    /\ ReturnNil
               ELSE /\ Logged("info", "found extensions matching query")
                    /\ pc' = "probe"
                    /\ UNCHANGED <<exitCode, abortSite>>
       ELSE /\ results' = Catalog
            /\ pc' = "probe"
            /\ UNCHANGED <<log, exitCode, abortSite>>
    /\ UNCHANGED <<cmdline, host, Active, Postgres, pgVer, idx, stdout, pgWrites,
                   probeReturned, downstream, aliasConsulted>>

\* Variant: the test on pgVer is inverted.
ListRenderInverted ==
    /\ pc = "resolved"
    /\ cmd = "list"
    /\ IF pgVer # 0
       THEN /\ Logged("debug", "no active PostgreSQL found, fallback to common tabulate")
            /\ stdout' = Append(stdout, TabulteCommon(results))
       ELSE /\ stdout' = Append(stdout, TabulteVersion(pgVer, results))
            /\ UNCHANGED log
    /\ downstream' = TRUE
    /\ ReturnNil
    /\ UNCHANGED <<cmdline, host, Active, Postgres, pgVer, results, idx, pgWrites,
                   probeReturned, catalogAccessed, aliasConsulted>>

ListRender ==
    /\ pc = "resolved"
    /\ cmd = "list"
    /\ IF pgVer = 0
       THEN /\ Logged("debug", "no active PostgreSQL found, fallback to common tabulate")
            /\ stdout' = Append(stdout, TabulteCommon(results))
       ELSE /\ stdout' = Append(stdout, TabulteVersion(pgVer, results))
            /\ UNCHANGED log
    /\ downstream' = TRUE
    /\ ReturnNil
    /\ UNCHANGED <<cmdline, host, Active, Postgres, pgVer, results, idx, pgWrites,
                   probeReturned, catalogAccessed, aliasConsulted>>

(***************************************************************************)
(* extInfoCmd                                                              *)
(***************************************************************************)
\* The zero Extension a failed map lookup yields.
NoExtension == [Name |-> "", Alias |-> "", Category |-> "", EnDesc |-> ""]

\* Variant: the alias map is tried first.
InfoLookupAliasFirst(name) ==
    IF name \in DOMAIN ExtAliasMap
    THEN [ok |-> TRUE, e |-> ExtAliasMap[name], alias |-> TRUE]
    ELSE IF name \in DOMAIN ExtNameMap
         THEN [ok |-> TRUE, e |-> ExtNameMap[name], alias |-> TRUE]
         ELSE [ok |-> FALSE, e |-> NoExtension, alias |-> TRUE]

\* e, ok := ExtNameMap[name]; if !ok { e, ok = ExtAliasMap[name] }
InfoLookup(name) ==
    IF name \in DOMAIN ExtNameMap
    THEN [ok |-> TRUE, e |-> ExtNameMap[name], alias |-> FALSE]
    ELSE IF name \in DOMAIN ExtAliasMap
         THEN [ok |-> TRUE, e |-> ExtAliasMap[name], alias |-> TRUE]
         ELSE [ok |-> FALSE, e |-> NoExtension, alias |-> TRUE]

InfoStart ==
    /\ pc = "resolved"
    /\ cmd = "info"
    /\ Logged("debug", "using PostgreSQL version: " \o Itoa(pgVer))
    /\ pc' = "info_loop"
    /\ UNCHANGED <<cmdline, host, Active, Postgres, pgVer, results, idx, stdout,
                   exitCode, abortSite, pgWrites, probeReturned, history>>

\* Variant: an unknown identifier ends the loop (`break` for `continue`).
InfoNextBreak ==
    /\ pc = "info_loop"
    /\ idx <= Len(args)
    /\ LET name == args[idx]
           r == InfoLookup(name)
       IN /\ catalogAccessed' = TRUE
          /\ aliasConsulted' = IF r.alias THEN aliasConsulted \cup {name}
                               ELSE aliasConsulted
          /\ IF r.ok
             THEN /\ stdout' = Append(stdout, PrintInfo(r.e))
                  /\ downstream' = TRUE
                  /\ idx' = idx + 1
                  /\ UNCHANGED <<log, pc, exitCode, abortSite>>
             ELSE /\ Logged("error", "extension '" \o name \o "' not found")
                  /\ ReturnNil
                  /\ UNCHANGED <<stdout, downstream, idx>>
    /\ UNCHANGED <<cmdline, host, Active, Postgres, pgVer, results, pgWrites,
                   probeReturned>>

InfoNext ==
    /\ pc = "info_loop"
    /\ idx <= Len(args)
    /\ LET name == args[idx]
           r == InfoLookup(name)
       IN /\ catalogAccessed' = TRUE
          /\ aliasConsulted' = IF r.alias THEN aliasConsulted \cup {name}
                               ELSE aliasConsulted
          /\ IF r.ok
             THEN /\ stdout' = Append(stdout, PrintInfo(r.e))
                  /\ downstream' = TRUE
                  /\ UNCHANGED log
             ELSE /\ Logged("error", "extension '" \o name \o "' not found")
                  /\ UNCHANGED <<stdout, downstream>>
    /\ idx' = idx + 1
    /\ UNCHANGED <<cmdline, host, Active, Postgres, pc, pgVer, results, exitCode,
                   abortSite, pgWrites, probeReturned>>

InfoReturn ==
    /\ pc = "info_loop"
    /\ idx > Len(args)
    /\ ReturnNil
    /\ UNCHANGED <<cmdline, host, Active, Postgres, pgVer, results, idx, stdout, log,
                   pgWrites, probeReturned, history>>

(***************************************************************************)
(* extAddCmd, extRmCmd, extUpdateCmd: the package operation may fail; the  *)
(* handler logs the error and returns nil either way.                      *)
(***************************************************************************)
RunPackageOp(command, op, failure) ==
    /\ pc = "resolved"
    /\ cmd = command
    /\ stdout' = Append(stdout, PackageOp(op, pgVer, args, extYes))
    /\ downstream' = TRUE
    /\ \E err \in BOOLEAN :
          IF err THEN Logged("error", failure) ELSE UNCHANGED log
    /\ ReturnNil
    /\ UNCHANGED <<cmdline, host, Active, Postgres, pgVer, results, idx, pgWrites,
                   probeReturned, catalogAccessed, aliasConsulted>>

ExtAdd == RunPackageOp("add", "InstallExtensions", "failed to install extensions")

ExtRm == RunPackageOp("rm", "RemoveExtensions", "failed to remove extensions")

ExtUpdate == RunPackageOp("update", "UpdateExtensions", "failed to update extensions")

(***************************************************************************)
(* extStatusCmd                                                            *)
(***************************************************************************)
ExtStatus ==
    /\ pc = "resolved"
    /\ cmd = "status"
    /\ stdout' = Append(stdout, ExtensionStatus(extShowContrib))
    /\ downstream' = TRUE
    /\ ReturnNil
    /\ UNCHANGED <<cmdline, host, Active, Postgres, pgVer, results, idx, log, pgWrites,
                   probeReturned, catalogAccessed, aliasConsulted>>

(***************************************************************************)
(* extScanCmd                                                              *)
(***************************************************************************)
ScanInstallSummary ==
    /\ pc = "resolved"
    /\ cmd = "scan"
    /\ stdout' = Append(stdout, PostgresInstallSummary)
    /\ downstream' = TRUE
    /\ pc' = "scan_check"
    /\ UNCHANGED <<cmdline, host, Active, Postgres, pgVer, results, idx, log, exitCode,
                   abortSite, pgWrites, probeReturned, catalogAccessed, aliasConsulted>>

\* Variant: only the version is tested, not the installation pointer.
ScanCheckVersionOnly ==
    /\ pc = "scan_check"
    /\ IF pgVer = 0
       THEN /\ Logged("debug", "no active PostgreSQL found")
            /\ Exit(1, "scan_check")
       ELSE /\ pc' = "scan_ext"
            /\ UNCHANGED <<log, exitCode, abortSite>>
    /\ UNCHANGED <<cmdline, host, Active, Postgres, pgVer, results, idx, stdout,
                   pgWrites, probeReturned, history>>

\* Variant: an unset current installation is replaced by the active one here,
\* after the general summary has run.
ScanCheckAdoptsActive ==
    /\ pc = "scan_check"
    /\ IF Postgres = Nil /\ Active # Nil
       THEN /\ Postgres' = Active
            /\ pgWrites' = pgWrites + 1
       ELSE UNCHANGED <<Postgres, pgWrites>>
    /\ IF pgVer = 0 \/ Postgres' = Nil
       THEN /\ Logged("debug", "no active PostgreSQL found")
            /\ Exit(1, "scan_check")
       ELSE /\ pc' = "scan_ext"
            /\ UNCHANGED <<log, exitCode, abortSite>>
    /\ UNCHANGED <<cmdline, host, Active, pgVer, results, idx, stdout, probeReturned,
                   history>>

ScanCheck ==
    /\ pc = "scan_check"
    /\ IF pgVer = 0 \/ Postgres = Nil
       THEN /\ Logged("debug", "no active PostgreSQL found")
            /\ Exit(1, "scan_check")
       ELSE /\ pc' = "scan_ext"
            /\ UNCHANGED <<log, exitCode, abortSite>>
    /\ UNCHANGED <<cmdline, host, Active, Postgres, pgVer, results, idx, stdout,
                   pgWrites, probeReturned, history>>

\* ext.Postgres.ExtensionInstallSummary(): a nil ext.Postgres is a nil-pointer
\* dereference, which ends the process with a panic (exit status 2).
ScanExtensionSummary ==
    /\ pc = "scan_ext"
    /\ IF Postgres = Nil
       THEN /\ Exit(2, "panic")
            /\ UNCHANGED stdout
       ELSE /\ stdout' = Append(stdout, ExtensionInstallSummary(Postgres))
            /\ ReturnNil
    /\ UNCHANGED <<cmdline, host, Active, Postgres, pgVer, results, idx, log, pgWrites,
                   probeReturned, history>>

(***************************************************************************)
(* The process                                                             *)
(***************************************************************************)
Next ==
    \/ ListArgs \/ ListSearch \/ ListRender
    \/ InfoStart \/ InfoNext \/ InfoReturn
    \/ ExtAdd \/ ExtRm \/ ExtUpdate
    \/ ExtStatus
    \/ ScanInstallSummary \/ ScanCheck \/ ScanExtensionSummary
    \/ ProbeDetect \/ ProbeMutex \/ ProbeByVersion \/ ProbeByPath \/ ProbeFallback

Spec == Init /\ [][Next]_vars

TypeOK ==
    /\ cmd \in Commands
    /\ pc \in {"list_args", "list_search", "probe", "probe_mutex", "probe_select",
               "resolved", "info_loop", "scan_check", "scan_ext", "exit"}
    /\ Postgres \in Installs \cup {Nil}
    /\ Active \in Installs \cup {Nil}
    /\ pgVer \in Nat
    /\ idx \in 1..(Len(args) + 1)
    /\ exitCode \in Nat
    /\ pgWrites \in Nat

(***************************************************************************)
(* Properties                                                              *)
(***************************************************************************)
\* The os.Exit calls inside extProbeVersion.
ResolverSites == {"probe_mutex", "probe_path"}

BothFlags == extPgVer # 0 /\ extPgConfig # ""

\* The path flag names the pg_config of an installation of the host.
PathResolves == \E p \in Installs : p.PgConfig = extPgConfig

\* The explicit version is that of an installation of the host.
VersionResolves == \E p \in Installs : p.MajorVersion = extPgVer

KnownArg(a) == a \in DOMAIN ExtNameMap \cup DOMAIN ExtAliasMap

\* The identifiers among the first k arguments that one of the maps knows.
KnownAmong(k) == SelectSeq(SubSeq(args, 1, k), KnownArg)

\* C1: with both --version and --path set, every subcommand exits non-zero,
\* and up to that exit no catalog access has occurred and nothing has been
\* rendered.
C1_MutexAbortsBeforeCatalog ==
    BothFlags =>
        /\ ~catalogAccessed
        /\ stdout = <<>>
        /\ pc = "exit" => exitCode # 0

\* C2: with an explicit version V and no path, the resolver never aborts and
\* returns exactly V, whether or not an installation of V exists.
C2_ExplicitVersionWins ==
    (extPgVer # 0 /\ extPgConfig = "") =>
        /\ abortSite \notin ResolverSites
        /\ probeReturned => pgVer = extPgVer
        /\ (pc = "exit" /\ cmd # "list") => probeReturned

C2_Witness ==
    /\ probeReturned
    /\ extPgVer # 0
    /\ extPgConfig = ""
    /\ ~VersionResolves
    /\ Installs # {}
    /\ pgVer = extPgVer
    /\ pc = "exit"

\* C3: with no version and a path that does not resolve, every invocation
\* aborts with a non-zero exit code different from the mutual-exclusion
\* one, and nothing has been written to standard output.
C3_BadPathAbortsDistinct ==
    (extPgVer = 0 /\ extPgConfig # "" /\ ~PathResolves) =>
        /\ stdout = <<>>
        /\ pc = "exit" =>
              /\ abortSite # ""
              /\ exitCode # 0
              /\ exitCode # MutexExitCode

C5_FallbackToActive ==
    (extPgVer = 0 /\ extPgConfig = "") =>
        /\ abortSite \notin ResolverSites
        /\ probeReturned =>
              IF Active # Nil
              THEN Postgres = Active /\ pgVer = Active.MajorVersion /\ pgVer # 0
              ELSE pgVer = 0
        /\ (pc = "exit" /\ cmd # "list") => probeReturned

C5_Witness ==
    /\ probeReturned
    /\ extPgVer = 0
    /\ extPgConfig = ""
    /\ Active # Nil
    /\ Postgres = Active
    /\ Cardinality(Installs) > 1
    /\ pc = "exit"

\* C6: once the resolver has returned, info logs and skips every identifier
\* neither map knows and renders one panel for every identifier a map knows,
\* in argument order; the whole list is processed and the command succeeds.
C6_InfoSkipsUnknown ==
    (cmd = "info" /\ probeReturned) =>
        LET known == KnownAmong(idx - 1)
        IN /\ Len(stdout) = Len(known)
           /\ \A k \in 1..Len(known) :
                 /\ stdout[k].op = "PrintInfo"
                 /\ \E m \in {ExtNameMap, ExtAliasMap} :
                       known[k] \in DOMAIN m /\ stdout[k].exts = <<m[known[k]].Name>>
           /\ \A j \in 1..(idx - 1) :
                 ~KnownArg(args[j]) =>
                    \E l \in 1..Len(log) :
                       log[l] = <<"error", "extension '" \o args[j] \o "' not found">>
           /\ pc = "exit" =>
                 /\ idx = Len(args) + 1
                 /\ exitCode = 0
                 /\ abortSite = ""

C6_Witness ==
    /\ cmd = "info"
    /\ pc = "exit"
    /\ Len(args) > 1
    /\ ~KnownArg(args[1])
    /\ KnownArg(args[Len(args)])
    /\ Len(stdout) = Len(KnownAmong(Len(args)))
    /\ Len(stdout) > 0

\* C7: an identifier that is a key of the name map is rendered from the name
\* map's entry, also when the alias map has it too, and the alias map is not
\* consulted for it.
C7_NameMapFirst ==
    (cmd = "info" /\ probeReturned) =>
        \A k \in 1..(idx - 1) :
            args[k] \in DOMAIN ExtNameMap =>
                /\ Len(stdout) >= Len(KnownAmong(k))
                /\ stdout[Len(KnownAmong(k))].exts = <<ExtNameMap[args[k]].Name>>
                /\ args[k] \notin aliasConsulted

C7_Witness ==
    /\ cmd = "info"
    /\ pc = "exit"
    /\ aliasConsulted # {}
    /\ \E k \in 1..Len(args) :
          /\ args[k] \in DOMAIN ExtNameMap \cap DOMAIN ExtAliasMap
          /\ ExtNameMap[args[k]] # ExtAliasMap[args[k]]
          /\ stdout[Len(KnownAmong(k))].exts = <<ExtNameMap[args[k]].Name>>

\* C8: a list invocation that reaches rendering writes exactly one table:
\* the version-agnostic one iff the resolver returned 0, else the
\* version-scoped one for exactly the resolved version; before that, and
\* when the query matches nothing, no table is written.
C8_ListRenderMode ==
    cmd = "list" =>
        /\ (pc = "exit" /\ probeReturned) =>
              /\ Len(stdout) = 1
              /\ stdout[1].exts = Names(results)
              /\ pgVer = 0 <=> stdout[1].op = "TabulteCommon"
              /\ pgVer # 0 <=> (stdout[1].op = "TabulteVersion" /\ stdout[1].ver = pgVer)
        /\ (pc # "exit" \/ ~probeReturned) => stdout = <<>>
        /\ (Len(args) = 1 /\ SearchExtensions(args[1], Catalog) = <<>>) =>
              /\ stdout = <<>>
              /\ pc = "exit" => (exitCode = 0 /\ abortSite = "")

C8_Witness ==
    /\ cmd = "list"
    /\ pc = "exit"
    /\ Len(args) = 1
    /\ Len(stdout) = 1
    /\ stdout[1].op = "TabulteVersion"
    /\ stdout[1].ver = extPgVer
    /\ ~VersionResolves
    /\ Len(stdout[1].exts) < Len(Catalog)

\* C9 as stated, for the invocations whose resolver has run: every invocation
\* that does not abort has assigned the current installation exactly once.
C9_AssignedExactlyOnce ==
    (pc = "exit" /\ abortSite = "" /\ probeReturned) => pgWrites = 1

\* C9 as amended: the current installation is assigned at most once, only
\* by the version resolver and before any downstream operation has run, and
\* is not modified afterwards; it stays unset exactly when the resolver
\* assigned nothing.
C9_AssignedAtMostOnce ==
    /\ [](pgWrites <= 1 /\ (pgWrites = 0 <=> Postgres = Nil))
    /\ [][(Postgres' # Postgres \/ pgWrites' # pgWrites) =>
             (pc = "probe_select" /\ ~downstream /\ pgWrites = 0)]_vars
    /\ [][downstream => (Postgres' = Postgres /\ pgWrites' = pgWrites)]_vars

C9_Witness ==
    /\ pc = "exit"
    /\ abortSite = ""
    /\ downstream
    /\ pgWrites = 1
    /\ Postgres # Nil
    /\ Postgres # Active

\* C10: scan reaches the per-installation summary only with a non-zero
\* version and a set current installation; otherwise, once the resolver
\* has returned, it exits with status 1 after the general summary, and the
\* current installation is never dereferenced while unset.
C10_ScanGuard ==
    cmd = "scan" =>
        /\ abortSite # "panic"
        /\ pc = "scan_ext" => (pgVer # 0 /\ Postgres # Nil)
        /\ (\E k \in 1..Len(stdout) : stdout[k].op = "ExtensionInstallSummary") =>
              (pgVer # 0 /\ Postgres # Nil /\ pc = "exit" /\ exitCode = 0)
        /\ (pc = "exit" /\ probeReturned /\ (pgVer = 0 \/ Postgres = Nil)) =>
              /\ exitCode = 1
              /\ abortSite = "scan_check"
              /\ stdout = <<PostgresInstallSummary>>

C10_Witness ==
    /\ cmd = "scan"
    /\ pc = "exit"
    /\ extPgVer # 0
    /\ ~VersionResolves
    /\ Postgres = Nil
    /\ exitCode = 1
    /\ stdout = <<PostgresInstallSummary>>

====
